---- MODULE Spec2Model ----
(***************************************************************************)
(* RunnerConfig (runner/config.py): reads an INI file with configparser,   *)
(* resolves the typed options of every section and turns every section     *)
(* heading (a comma separated list of DBMS names, each optionally          *)
(* labelled) into DbSystem instances.                                      *)
(*                                                                         *)
(* Strings are sequences of one-character strings, so that split, strip,   *)
(* lower, the label pattern and the integer parse are computed.            *)
(***************************************************************************)
EXTENDS Integers, Sequences, FiniteSets, TLC

\* the largest number of sections of a configuration file
MaxSections == 3

----------------------------------------------------------------------------
\* str methods and builtins used by config.py

RECURSIVE split(_, _)
\* str.split(sep): the pieces between the separators, empty pieces included
split(s, sep) ==
    IF \A n \in 1..Len(s) : s[n] # sep
    THEN <<s>>
    ELSE LET p == CHOOSE n \in 1..Len(s) :
                      s[n] = sep /\ \A m \in 1..(n - 1) : s[m] # sep
         IN  <<SubSeq(s, 1, p - 1)>> \o split(SubSeq(s, p + 1, Len(s)), sep)

RECURSIVE strip(_)
\* str.strip(): leading and trailing whitespace removed
strip(s) ==
    IF Len(s) = 0 THEN s
    ELSE IF s[1] = " " THEN strip(Tail(s))
    ELSE IF s[Len(s)] = " " THEN strip(SubSeq(s, 1, Len(s) - 1))
    ELSE s

Upper == <<"A","B","C","D","E","F","G","H","I","J","K","L","M",
           "N","O","P","Q","R","S","T","U","V","W","X","Y","Z">>

Lower == <<"a","b","c","d","e","f","g","h","i","j","k","l","m",
           "n","o","p","q","r","s","t","u","v","w","x","y","z">>

lower_char(c) ==
    IF \E n \in 1..26 : Upper[n] = c
    THEN Lower[CHOOSE n \in 1..26 : Upper[n] = c]
    ELSE c

\* str.lower()
lower(s) == [n \in 1..Len(s) |-> lower_char(s[n])]

Digits == <<"0", "1", "2", "3", "4", "5", "6", "7", "8", "9">>

digit_value(c) == (CHOOSE n \in 1..10 : Digits[n] = c) - 1

RECURSIVE digits_value(_)
digits_value(s) ==
    IF Len(s) = 0 THEN 0
    ELSE 10 * digits_value(SubSeq(s, 1, Len(s) - 1)) + digit_value(s[Len(s)])

\* int(str): surrounding whitespace, an optional sign and decimal digits;
\* anything else is a ValueError
int(str) ==
    LET s    == strip(str)
        neg  == Len(s) > 0 /\ s[1] = "-"
        body == IF Len(s) > 0 /\ s[1] \in {"-", "+"} THEN Tail(s) ELSE s
    IN  IF Len(body) = 0 \/ \E n \in 1..Len(body) :
                                 \A d \in 1..10 : Digits[d] # body[n]
        THEN [ok |-> FALSE, err |-> "ValueError"]
        ELSE [ok |-> TRUE,
              val |-> IF neg THEN 0 - digits_value(body) ELSE digits_value(body)]

----------------------------------------------------------------------------
\* runner/constants.py and runner/dbsystem.py

SUPPORTED_DBS == { <<"m","y","s","q","l">>,
                   <<"p","o","s","t","g","r","e","s">> }

DEFAULT_TABLENAME == <<"u","s","e","r","t","a","b","l","e">>

\* RE_DBNAME_LABEL.search(db): the leftmost "(label)" that ends the string,
\* as the index of its opening parenthesis, or 0 (None)
RE_DBNAME_LABEL_search(db) ==
    LET starts == { p \in 1..(Len(db) - 1) :
                      /\ db[p] = "("
                      /\ db[Len(db)] = ")"
                      /\ \A q \in (p + 1)..(Len(db) - 1) : db[q] # ")" }
    IN  IF starts = {} THEN 0
        ELSE CHOOSE p \in starts : \A q \in starts : p <= q

\* the captured group of the match
RE_DBNAME_LABEL_groups(db) ==
    SubSeq(db, RE_DBNAME_LABEL_search(db) + 1, Len(db) - 1)

\* RE_DBNAME_LABEL.sub("", db): every match removed
RE_DBNAME_LABEL_sub(db) ==
    IF RE_DBNAME_LABEL_search(db) = 0 THEN db
    ELSE SubSeq(db, 1, RE_DBNAME_LABEL_search(db) - 1)

\* DbSystem(db, config, label=label, tablename=tablename)
DbSystem(db, config, label, tablename) ==
    [name |-> db, config |-> config, label |-> label, tablename |-> tablename]

----------------------------------------------------------------------------
\* configparser.ConfigParser

\* optionxform: option names are lower-cased
optionxform(option) == lower(option)

BOOLEAN_STATES ==
    [s \in { <<"1">>, <<"y","e","s">>, <<"t","r","u","e">>, <<"o","n">>,
             <<"0">>, <<"n","o">>, <<"f","a","l","s","e">>, <<"o","f","f">> }
       |-> s \in { <<"1">>, <<"y","e","s">>, <<"t","r","u","e">>, <<"o","n">> }]

\* ConfigParser.get(section, option) on the options of an existing section
get(options, option) ==
    IF optionxform(option) \in DOMAIN options
    THEN [ok |-> TRUE, val |-> options[optionxform(option)]]
    ELSE [ok |-> FALSE, err |-> "NoOptionError"]

\* ConfigParser.getint(section, option)
getint(options, option) ==
    IF get(options, option).ok THEN int(get(options, option).val)
    ELSE get(options, option)

\* ConfigParser.getboolean(section, option)
getboolean(options, option) ==
    IF ~get(options, option).ok THEN get(options, option)
    ELSE IF lower(get(options, option).val) \in DOMAIN BOOLEAN_STATES
    THEN [ok |-> TRUE, val |-> BOOLEAN_STATES[lower(get(options, option).val)]]
    ELSE [ok |-> FALSE, err |-> "ValueError"]

----------------------------------------------------------------------------
\* RunnerConfig.OPTION_KEYS, in dict order, with the type of each marker

OPTION_KEYS ==
    << [key |-> <<"t","r","i","a","l","s">>,     type |-> "int"],
       [key |-> <<"m","i","n","_","m","p","l">>, type |-> "int"],
       [key |-> <<"m","a","x","_","m","p","l">>, type |-> "int"],
       [key |-> <<"i","n","c","_","m","p","l">>, type |-> "int"],
       [key |-> <<"o","u","t","p","u","t">>,     type |-> "function"],
       [key |-> <<"w","o","r","k","l","o","a","d">>, type |-> "str"],
       [key |-> <<"o","u","t","p","u","t","_","p","l","o","t","s">>,
        type |-> "bool"] >>

\* the coercion of one key: the branches of the loop body
coerce(options, n) ==
    LET k == OPTION_KEYS[n].key
        t == OPTION_KEYS[n].type
    IN  IF t = "int" THEN getint(options, k)
        ELSE IF t = "bool" THEN getboolean(options, k)
        ELSE IF t = "str" THEN get(options, k)
        ELSE IF get(options, k).ok
             THEN [ok |-> TRUE, val |-> lower(get(options, k).val)]
             ELSE get(options, k)

\* __process_config_keys(section): the option mapping, or the exception of
\* the first key (in dict order) whose lookup or coercion fails
process_config_keys(options) ==
    LET bad == { n \in 1..Len(OPTION_KEYS) : ~coerce(options, n).ok }
    IN  IF bad = {}
        THEN [ok |-> TRUE,
              config |-> [k \in { OPTION_KEYS[n].key : n \in 1..Len(OPTION_KEYS) }
                            |-> coerce(options,
                                       CHOOSE n \in 1..Len(OPTION_KEYS) :
                                           OPTION_KEYS[n].key = k).val]]
        ELSE LET first == CHOOSE n \in bad : \A m \in bad : n <= m
             IN  [ok |-> FALSE, err |-> coerce(options, first).err,
                  key |-> OPTION_KEYS[first].key]

----------------------------------------------------------------------------
\* The configuration files the runner is started on

\* section headings
Headers ==
    << <<"M","y","S","Q","L","(","a",")",","," ","p","o","s","t","g","r","e","s">>,
       <<"f","o","o","d","b",","," ","m","y","s","q","l">>,
       <<"f","o","o","d","b">>,
       <<"t","a","b","l","e","n","a","m","e">> >>

OptionsA ==
    [k \in { OPTION_KEYS[n].key : n \in 1..Len(OPTION_KEYS) } |->
        CASE k = OPTION_KEYS[1].key -> <<"5">>
          [] k = OPTION_KEYS[2].key -> <<"1">>
          [] k = OPTION_KEYS[3].key -> <<"4">>
          [] k = OPTION_KEYS[4].key -> <<"1">>
          [] k = OPTION_KEYS[5].key -> <<"c","s","v">>
          [] k = OPTION_KEYS[6].key -> <<"w",".","t","x","t">>
          [] k = OPTION_KEYS[7].key -> <<"t","r","u","e">>]

OptionsB ==
    [k \in DOMAIN OptionsA \cup {DEFAULT_TABLENAME} |->
        CASE k = OPTION_KEYS[1].key -> <<"1","2">>
          [] k = OPTION_KEYS[2].key -> <<"2">>
          [] k = OPTION_KEYS[3].key -> <<"+","8">>
          [] k = OPTION_KEYS[4].key -> <<"2">>
          [] k = OPTION_KEYS[5].key -> <<"C","S","V">>
          [] k = OPTION_KEYS[6].key -> <<"w",".","t","x","t">>
          [] k = OPTION_KEYS[7].key -> <<"N","o">>
          [] k = DEFAULT_TABLENAME  -> <<"t","1">>]

\* the options of a section: complete, complete with a usertable option,
\* trials absent, output_plots not a boolean
Profiles ==
    << OptionsA,
       OptionsB,
       [k \in DOMAIN OptionsA \ {OPTION_KEYS[1].key} |-> OptionsA[k]],
       [k \in DOMAIN OptionsA |->
           IF k = OPTION_KEYS[7].key THEN <<"m","a","y","b","e">>
           ELSE OptionsA[k]] >>

SectionIds == [h : 1..Len(Headers), p : 1..Len(Profiles)]

\* the files: absent, not INI syntax, or a list of sections with distinct
\* headings (a repeated heading is a syntax error of the strict parser)
Sources ==
    { [kind |-> "missing", sections |-> <<>>],
      [kind |-> "malformed", sections |-> <<>>] }
    \cup
    { [kind |-> "ini", sections |-> ss] :
        ss \in { s \in UNION { [1..n -> SectionIds] : n \in 0..MaxSections } :
                   \A a, b \in DOMAIN s : a # b => s[a].h # s[b].h } }

name_of(section)    == Headers[section.h]
options_of(section) == Profiles[section.p]

----------------------------------------------------------------------------
VARIABLES
    source,       \* the file at the path given to RunnerConfig
    run,          \* 1 for the first RunnerConfig(configfile), 2 for the second
    prev,         \* the outcome of the first construction
    pc,           \* the position in RunnerConfig.__init__
    self_config,  \* self.config: the sections ConfigParser has read
    self_dbs,     \* self.dbs, unset until __process_sections has returned
    dbs,          \* dbs of __process_sections
    i,            \* index of `section` in self.config.sections()
    config,       \* config of __process_sections
    db_instances, \* db_instances of __process_dbs
    j,            \* index of `db` in the split heading
    out,          \* the names printed by the "Invalid database" diagnostic
    err           \* the exception that left __init__

vars == <<source, run, prev, pc, self_config, self_dbs, dbs, i, config,
          db_instances, j, out, err>>

NoError == [type |-> "none", at |-> "none"]
Unset   == [set |-> FALSE, val |-> <<>>]
NoConfig == [k \in {} |-> 0]

\* a fresh RunnerConfig about to run __init__
Fresh ==
    /\ pc = "init"
    /\ self_config = <<>>
    /\ self_dbs = Unset
    /\ dbs = <<>>
    /\ i = 1
    /\ config = NoConfig
    /\ db_instances = <<>>
    /\ j = 1
    /\ out = <<>>
    /\ err = NoError

Init ==
    /\ source \in Sources
    /\ run = 1
    /\ prev = [pc |-> "none"]
    /\ Fresh

\* the section heading split on commas, every piece stripped
pieces(section) ==
    [n \in 1..Len(split(name_of(section), ",")) |->
        strip(split(name_of(section), ",")[n])]

\* self.config.read(configfile): a file that cannot be opened is ignored, a
\* file that is not INI syntax raises
Read ==
    /\ pc = "init"
    /\ IF source.kind = "malformed"
       THEN /\ pc' = "raised"
            /\ err' = [type |-> "ParsingError", at |-> "read"]
            /\ UNCHANGED self_config
       ELSE /\ pc' = "sections"
            /\ self_config' = source.sections
            /\ UNCHANGED err
    /\ UNCHANGED <<source, run, prev, self_dbs, dbs, i, config,
                   db_instances, j, out>>

\* the options of the first section kept for every later section
ProcessConfigKeysStale ==
    /\ pc = "sections"
    /\ i <= Len(self_config)
    /\ LET r == process_config_keys(options_of(self_config[i]))
       IN  IF r.ok
           THEN /\ config' = IF i = 1 THEN r.config ELSE config
                /\ pc' = "dbs"
                /\ db_instances' = <<>>
                /\ j' = 1
                /\ UNCHANGED err
           ELSE /\ pc' = "raised"
                /\ err' = [type |-> r.err, at |-> "options", section |-> i,
                           key |-> r.key]
                /\ UNCHANGED <<config, db_instances, j>>
    /\ UNCHANGED <<source, run, prev, self_config, self_dbs, dbs, i, out>>

\* a failing option replaced by the options of the previous section
ProcessConfigKeysLenient ==
    /\ pc = "sections"
    /\ i <= Len(self_config)
    /\ LET r == process_config_keys(options_of(self_config[i]))
       IN  /\ config' = IF r.ok THEN r.config ELSE config
           /\ pc' = "dbs"
           /\ db_instances' = <<>>
           /\ j' = 1
           /\ UNCHANGED err
    /\ UNCHANGED <<source, run, prev, self_config, self_dbs, dbs, i, out>>

\* the heading examined before the options are resolved
ProcessConfigKeysLate ==
    /\ pc = "sections"
    /\ i <= Len(self_config)
    /\ LET r == process_config_keys(options_of(self_config[i]))
       IN  IF r.ok
           THEN /\ config' = r.config
                /\ pc' = "dbs"
                /\ db_instances' = <<>>
                /\ j' = 1
                /\ UNCHANGED <<err, out>>
           ELSE /\ pc' = "raised"
                /\ err' = [type |-> r.err, at |-> "options", section |-> i,
                           key |-> r.key]
                /\ out' = out \o SelectSeq(pieces(self_config[i]),
                                           LAMBDA d : lower(d) \notin SUPPORTED_DBS)
                /\ UNCHANGED <<config, db_instances, j>>
    /\ UNCHANGED <<source, run, prev, self_config, self_dbs, dbs, i>>

\* config = self.__process_config_keys(section)
ProcessConfigKeys ==
    /\ pc = "sections"
    /\ i <= Len(self_config)
    /\ LET r == process_config_keys(options_of(self_config[i]))
       IN  IF r.ok
           THEN /\ config' = r.config
                /\ pc' = "dbs"
                /\ db_instances' = <<>>
                /\ j' = 1
                /\ UNCHANGED err
           ELSE /\ pc' = "raised"
                /\ err' = [type |-> r.err, at |-> "options", section |-> i,
                           key |-> r.key]
                /\ UNCHANGED <<config, db_instances, j>>
    /\ UNCHANGED <<source, run, prev, self_config, self_dbs, dbs, i, out>>

\* self.config.get("tablename", DEFAULT_TABLENAME): the option named
\* DEFAULT_TABLENAME of the section named "tablename"
get_tablename(sections) ==
    LET t == { n \in 1..Len(sections) :
                 name_of(sections[n]) = <<"t","a","b","l","e","n","a","m","e">> }
    IN  IF t = {} THEN [ok |-> FALSE, err |-> "NoSectionError"]
        ELSE get(options_of(sections[CHOOSE n \in t : TRUE]), DEFAULT_TABLENAME)

\* the label taken as the whole match, parentheses included
label_of_group0(db) ==
    IF RE_DBNAME_LABEL_search(db) # 0
    THEN SubSeq(db, RE_DBNAME_LABEL_search(db), Len(db))
    ELSE <<>>

\* the label and the bare name of one piece of the heading
label_of(db) ==
    IF RE_DBNAME_LABEL_search(db) # 0 THEN RE_DBNAME_LABEL_groups(db) ELSE <<>>

name_without_label(db) ==
    IF RE_DBNAME_LABEL_search(db) # 0 THEN RE_DBNAME_LABEL_sub(db) ELSE db

\* the validation without the lower-casing
is_invalid_cased(db) == db \notin SUPPORTED_DBS

\* db.lower() not in SUPPORTED_DBS
is_invalid(db) == lower(db) \notin SUPPORTED_DBS

\* one iteration of `for db in section` of __process_dbs
ProcessDb ==
    /\ pc = "dbs"
    /\ j <= Len(pieces(self_config[i]))
    /\ LET piece == pieces(self_config[i])[j]
           label == label_of(piece)
           db    == name_without_label(piece)
           tablename == get_tablename(self_config)
       IN  IF is_invalid(db)
           THEN /\ out' = Append(out, db)
                /\ j' = j + 1
                /\ UNCHANGED <<pc, err, db_instances>>
           ELSE IF tablename.ok
           THEN /\ db_instances' =
                      Append(db_instances,
                             DbSystem(db, config, label, tablename.val))
                /\ j' = j + 1
                /\ UNCHANGED <<pc, err, out>>
           ELSE /\ pc' = "raised"
                /\ err' = [type |-> tablename.err, at |-> "tablename",
                           section |-> i, key |-> DEFAULT_TABLENAME]
                /\ UNCHANGED <<db_instances, j, out>>
    /\ UNCHANGED <<source, run, prev, self_config, self_dbs, dbs, i, config>>

\* the instances of a section put in front of the earlier ones
ProcessDbsReturnPrepend ==
    /\ pc = "dbs"
    /\ j > Len(pieces(self_config[i]))
    /\ dbs' = db_instances \o dbs
    /\ i' = i + 1
    /\ pc' = "sections"
    /\ db_instances' = <<>>
    /\ j' = 1
    /\ UNCHANGED <<source, run, prev, self_config, self_dbs, config, out, err>>

\* return db_instances, and dbs += ... in __process_sections
ProcessDbsReturn ==
    /\ pc = "dbs"
    /\ j > Len(pieces(self_config[i]))
    /\ dbs' = dbs \o db_instances
    /\ i' = i + 1
    /\ pc' = "sections"
    /\ db_instances' = <<>>
    /\ j' = 1
    /\ UNCHANGED <<source, run, prev, self_config, self_dbs, config, out, err>>

\* return dbs, and self.dbs = ... in __init__
ProcessSectionsReturn ==
    /\ pc = "sections"
    /\ i > Len(self_config)
    /\ self_dbs' = [set |-> TRUE, val |-> dbs]
    /\ pc' = "done"
    /\ UNCHANGED <<source, run, prev, self_config, dbs, i, config,
                   db_instances, j, out, err>>

\* what the caller of RunnerConfig(configfile) observes
Outcome == [pc |-> pc, dbs |-> self_dbs, out |-> out, err |-> err]

\* a second construction that appends to the list of the first
RerunShared ==
    /\ pc \in {"done", "raised"}
    /\ run = 1
    /\ run' = 2
    /\ prev' = Outcome
    /\ pc' = "init"
    /\ self_config' = <<>>
    /\ self_dbs' = Unset
    /\ dbs' = dbs
    /\ i' = 1
    /\ config' = NoConfig
    /\ db_instances' = <<>>
    /\ j' = 1
    /\ out' = <<>>
    /\ err' = NoError
    /\ UNCHANGED source

\* RunnerConfig(configfile) once more on the unchanged file
Rerun ==
    /\ pc \in {"done", "raised"}
    /\ run = 1
    /\ run' = 2
    /\ prev' = Outcome
    /\ pc' = "init"
    /\ self_config' = <<>>
    /\ self_dbs' = Unset
    /\ dbs' = <<>>
    /\ i' = 1
    /\ config' = NoConfig
    /\ db_instances' = <<>>
    /\ j' = 1
    /\ out' = <<>>
    /\ err' = NoError
    /\ UNCHANGED source

Next ==
    \/ Read
    \/ ProcessConfigKeys
    \/ ProcessDb
    \/ ProcessDbsReturn
    \/ ProcessSectionsReturn
    \/ Rerun

Spec == Init /\ [][Next]_vars

----------------------------------------------------------------------------
\* The declarations of a file, as the specification counts them

\* a declaration whose bare name is, ignoring case, a supported database
Supported(text) == lower(RE_DBNAME_LABEL_sub(text)) \in SUPPORTED_DBS

DeclsOf(sections, a) ==
    [b \in 1..Len(pieces(sections[a])) |->
        [sec |-> a, idx |-> b, text |-> pieces(sections[a])[b]]]

RECURSIVE AllDecls(_, _)
\* the declarations of the first n sections, in file order
AllDecls(sections, n) ==
    IF n = 0 THEN <<>> ELSE AllDecls(sections, n - 1) \o DeclsOf(sections, n)

IsValidDecl(d)   == Supported(d.text)
IsSkippedDecl(d) == ~Supported(d.text)

ValidDecls(sections, n)   == SelectSeq(AllDecls(sections, n), IsValidDecl)
SkippedDecls(sections, n) == SelectSeq(AllDecls(sections, n), IsSkippedDecl)

\* a section one of whose options is absent or fails its coercion
OptionError(section) ==
    \E n \in 1..Len(OPTION_KEYS) :
        LET k == OPTION_KEYS[n].key
            o == options_of(section)
        IN  \/ k \notin DOMAIN o
            \/ OPTION_KEYS[n].type = "int" /\ ~int(o[k]).ok
            \/ OPTION_KEYS[n].type = "bool"
                 /\ lower(o[k]) \notin DOMAIN BOOLEAN_STATES

NoOptionErrors == \A a \in DOMAIN source.sections : ~OptionError(source.sections[a])

Finished == pc \in {"done", "raised"}

----------------------------------------------------------------------------
\* C1: a load that ends without a fatal error returns exactly as many
\* descriptors as the file has declarations whose bare name is supported.
C1_Length ==
    pc = "done" =>
        Len(self_dbs.val) = Len(ValidDecls(source.sections, Len(source.sections)))

C1_Witness ==
    /\ pc = "done"
    /\ Len(self_dbs.val) >= 2
    /\ \E k \in DOMAIN self_dbs.val : self_dbs.val[k].name # lower(self_dbs.val[k].name)
    /\ Len(SkippedDecls(source.sections, Len(source.sections))) >= 2

\* C2: the descriptors of the result are the supported declarations in file
\* order: sections in order, declarations of a section in order.
C2_Order ==
    pc = "done" =>
        LET valid == ValidDecls(source.sections, Len(source.sections))
        IN  /\ Len(self_dbs.val) = Len(valid)
            /\ \A k \in DOMAIN self_dbs.val :
                   /\ self_dbs.val[k].name = RE_DBNAME_LABEL_sub(valid[k].text)
                   /\ self_dbs.val[k].label =
                          IF RE_DBNAME_LABEL_search(valid[k].text) # 0
                          THEN RE_DBNAME_LABEL_groups(valid[k].text) ELSE <<>>

C2_Witness ==
    /\ pc = "done"
    /\ LET valid == ValidDecls(source.sections, Len(source.sections))
       IN  /\ \E k \in DOMAIN valid :
                  /\ k + 2 \in DOMAIN valid
                  /\ valid[k].sec = valid[k + 1].sec
                  /\ valid[k + 1].sec < valid[k + 2].sec
                  /\ self_dbs.val[k] # self_dbs.val[k + 2]
           /\ Len(SkippedDecls(source.sections, Len(source.sections))) >= 2

\* C3: in a file whose options are all valid, an unsupported name followed by
\* a supported declaration does not stop the load, and every supported
\* declaration yields its descriptor.
C3_SkipIsNotFatal ==
    ( /\ Finished
      /\ source.kind = "ini"
      /\ NoOptionErrors
      /\ \E a, b \in DOMAIN AllDecls(source.sections, Len(source.sections)) :
             /\ a < b
             /\ IsSkippedDecl(AllDecls(source.sections, Len(source.sections))[a])
             /\ IsValidDecl(AllDecls(source.sections, Len(source.sections))[b]) )
    => /\ pc = "done"
       /\ Len(self_dbs.val) = Len(ValidDecls(source.sections, Len(source.sections)))

\* C4: a section with an absent or uncoercible option makes the load abort:
\* the loop never gets past that section, its heading is never resolved with
\* substituted options, and self.dbs is never set.
C4_Abort ==
    \A a \in DOMAIN source.sections :
        OptionError(source.sections[a]) =>
            /\ self_dbs = Unset
            /\ pc # "done"
            /\ i <= a
            /\ (i = a => pc \in {"init", "sections", "raised"})

C4_Witness ==
    /\ pc = "raised"
    /\ err.at = "options"
    /\ err.section = 3
    /\ Len(dbs) >= 2
    /\ self_dbs = Unset

\* C5: in a file without a tablename section the lookup of the table name
\* does not fail, and every descriptor has the default table name.
C5_DefaultTablename ==
    ( /\ source.kind = "ini"
      /\ \A a \in DOMAIN source.sections :
             name_of(source.sections[a]) # <<"t","a","b","l","e","n","a","m","e">> )
    => /\ err.at # "tablename"
       /\ \A k \in DOMAIN db_instances : db_instances[k].tablename = DEFAULT_TABLENAME
       /\ \A k \in DOMAIN dbs : dbs[k].tablename = DEFAULT_TABLENAME

\* C6: a file that cannot be read, or is not INI syntax, never gives a
\* completed load.
C6_UnreadableFails == source.kind \in {"missing", "malformed"} => pc # "done"

\* C7: a descriptor built from a piece that matches the label pattern has
\* the piece without the label as its name and the captured text as its
\* label; built from any other piece it has the piece as its name and the
\* empty label.
C7_Label ==
    [][ (pc = "dbs" /\ Len(db_instances') = Len(db_instances) + 1) =>
          LET piece == pieces(self_config[i])[j]
              d     == db_instances'[Len(db_instances')]
          IN  IF RE_DBNAME_LABEL_search(piece) # 0
              THEN /\ d.name = RE_DBNAME_LABEL_sub(piece)
                   /\ d.label = RE_DBNAME_LABEL_groups(piece)
              ELSE /\ d.name = piece
                   /\ d.label = <<>> ]_vars

C7_Witness ==
    /\ pc = "done"
    /\ \E k \in DOMAIN self_dbs.val :
           /\ k + 1 \in DOMAIN self_dbs.val
           /\ self_dbs.val[k].name = <<"M","y","S","Q","L">>
           /\ self_dbs.val[k].label = <<"a">>
           /\ self_dbs.val[k + 1].name = <<"p","o","s","t","g","r","e","s">>
           /\ self_dbs.val[k + 1].label = <<>>

C9_OwnSection ==
    pc = "done" =>
        LET valid == ValidDecls(source.sections, Len(source.sections))
        IN  /\ Len(self_dbs.val) = Len(valid)
            /\ \A k \in DOMAIN self_dbs.val :
                   /\ DOMAIN self_dbs.val[k].config =
                          { OPTION_KEYS[n].key : n \in 1..Len(OPTION_KEYS) }
                   /\ self_dbs.val[k].config =
                          process_config_keys(
                              options_of(source.sections[valid[k].sec])).config

C9_Witness ==
    /\ pc = "done"
    /\ LET valid == ValidDecls(source.sections, Len(source.sections))
       IN  \E k, l \in DOMAIN valid :
               /\ k < l
               /\ valid[k].sec = valid[l].sec
               /\ self_dbs.val[k].config = self_dbs.val[l].config
               /\ \E m \in DOMAIN valid :
                      /\ valid[m].sec # valid[k].sec
                      /\ self_dbs.val[m].config # self_dbs.val[k].config

\* C10: when the options of a section fail, nothing of its heading has been
\* examined: the diagnostics and the descriptors are those of the earlier
\* sections only; and no load completes on a file with such a section.
C10_OptionsFirst ==
    /\ (pc = "raised" /\ err.at = "options") =>
           /\ Len(out) = Len(SkippedDecls(source.sections, err.section - 1))
           /\ Len(dbs) = Len(ValidDecls(source.sections, err.section - 1))
           /\ db_instances = <<>>
           /\ OptionError(source.sections[err.section])
    /\ (pc = "done" /\ source.kind = "ini") => NoOptionErrors

C10_Witness ==
    /\ pc = "raised"
    /\ err.at = "options"
    /\ err.section >= 2
    /\ Len(out) >= 1
    /\ \A b \in DOMAIN pieces(source.sections[err.section]) :
           ~Supported(pieces(source.sections[err.section])[b])

====
